---------------------------- MODULE Spec2Model ----------------------------
(***************************************************************************)
(* A model of the HCAD ETL pipeline: the relational store (PropertyRecord, *)
(* BuildingDetail, ExtraFeature), the pipeline's ModelLoader, the          *)
(* LoadManager, the legacy loaders of data/etl.py with the building-data   *)
(* import task, and the ETLOrchestrator's stage machine.                   *)
(***************************************************************************)
EXTENDS Integers, Sequences, FiniteSets, TLC

(***************************************************************************)
(* Bounds of the model.                                                    *)
(***************************************************************************)
MaxAcct == 2          \* account numbers are 1..MaxAcct; 0 is the empty string
MaxNum == 1           \* building / feature numbers are 1..MaxNum
MaxFileLen == 2       \* records in one input file
MaxRows == 2          \* rows one table may hold
MaxBatchSize == 2     \* batch sizes are 1..MaxBatchSize
MaxClock == 2         \* the wall clock (to the second) runs 1..MaxClock
MaxUnits == 1         \* room counts (fixture units, room columns) are 0..MaxUnits

NoAcct == 0
Accts == 1..MaxAcct
Nums == 1..MaxNum
FeatureCodes == {"POOL"}

VARIABLES
    \* ---- the relational store (data/models.py)
    db,             \* [props, seq, builds, feats]:
                    \*   props: PropertyRecord rows in insertion order, [id, acct]
                    \*   seq: identity sequence of data_propertyrecord (last id given)
                    \*   builds: BuildingDetail rows, [pid, acct, num, active, batch]
                    \*   feats: ExtraFeature rows, [pid, acct, code, num, active, batch]
    \* ---- ModelLoader (data/etl_pipeline/model_loader.py)
    loader,         \* [batchSize, validAccounts, accountToProperty]:
                    \*   batchSize: ModelLoader.batch_size
                    \*   validAccounts: ModelLoader._valid_accounts, <<>> is None, <<S>> a set
                    \*   accountToProperty: ModelLoader._account_to_property, <<>> is None,
                    \*     <<f>> a dict
                    \*   fixtures: ModelLoader.fixtures_aggregator.fixtures_cache, a
                    \*     function from <<account, building number>> to room counts
    clock,              \* timezone.now(), to the second
    \* ---- ETLOrchestrator (data/etl_pipeline/orchestrator.py)
    orch,           \* the configuration, the position inside execute(), and
                    \*   the PipelineResult being built
    \* ---- the task download_and_import_building_data (data/tasks_new.py)
    task,           \* [pc, batch, before]: the step the task is at, its batch id,
                    \*   and the child tables as they were when it began; for
                    \*   DownloadManager.download_file (data/etl_pipeline/download.py)
                    \*   the retry configuration, the locals of the call, the
                    \*   delays slept and whether the destination file exists
    \* ---- what the last operation was and what it returned
    call,
    result

vars == <<db, loader, clock, orch, task, call, result>>

(***************************************************************************)
(* Helpers on sequences.                                                   *)
(***************************************************************************)
SeqsUpTo(S, n) == UNION {[1..k -> S] : k \in 0..n}

Range(s) == {s[i] : i \in 1..Len(s)}

(***************************************************************************)
(* The relational store.  models.py declares no unique constraint, so an   *)
(* insert never conflicts; both child tables reference PropertyRecord by a *)
(* foreign key that the store enforces.                                    *)
(***************************************************************************)
EmptyDb == [props |-> <<>>, seq |-> 0, builds |-> <<>>, feats |-> <<>>]

PropIds(props) == {props[i].id : i \in 1..Len(props)}

PropAccounts(props) == {props[i].acct : i \in 1..Len(props)}

\* PropertyRecord.objects.values_list("account_number", flat=True) as a set
ValuesListAccounts(props) == PropAccounts(props)

\* dict(PropertyRecord.objects.values_list("account_number", "id")): a later
\* row of the same account overwrites an earlier one
ValuesListAccountId(props) ==
    [a \in PropAccounts(props) |->
        LET last == CHOOSE i \in 1..Len(props) :
                        /\ props[i].acct = a
                        /\ \A j \in 1..Len(props) : props[j].acct = a => j <= i
        IN  props[last].id]

\* some of these child rows names no PropertyRecord: the foreign key
\* constraint rejects the transaction
ForeignKeyViolated(rows, props) ==
    \E i \in 1..Len(rows) : rows[i].pid \notin PropIds(props)

\* TRUNCATE TABLE "data_propertyrecord" RESTART IDENTITY CASCADE empties the
\* tables that reference it too
TruncatePropertyCascade(d) == EmptyDb

\* TRUNCATE TABLE "data_buildingdetail" / "data_extrafeature" RESTART IDENTITY CASCADE
TruncateChild(d, kind) ==
    IF kind = "building" THEN [d EXCEPT !.builds = <<>>] ELSE [d EXCEPT !.feats = <<>>]

ChildTable(d, kind) == IF kind = "building" THEN d.builds ELSE d.feats

WithChildTable(d, kind, rows) ==
    IF kind = "building" THEN [d EXCEPT !.builds = rows] ELSE [d EXCEPT !.feats = rows]

(***************************************************************************)
(* FixturesAggregator (data/etl_pipeline/fixtures_aggregator.py).  Units   *)
(* are whole numbers here; bathrooms are counted in half baths, so that    *)
(* full + 0.5 * half is 2 * full + half.                                   *)
(***************************************************************************)
BEDROOM_CODE == "RMB"

FULL_BATH_CODE == "RMF"

HALF_BATH_CODE == "RMH"

\* the value of a column the record does not carry (None)
NoValue == -1

\* what get_fixtures returns for a key it does not hold
NoFixtures == [bedrooms |-> 0, fullBaths |-> 0, halfBaths |-> 0]

\* FixturesAggregator.__init__: fixtures_cache = {}
EmptyCache == [k \in {} |-> NoFixtures]

\* the loop of load_fixtures_file over rows[i..]: a row of one of the three
\* codes sets (does not add to) the count of its key
RECURSIVE FixturesLoop(_, _, _)
FixturesLoop(rows, i, data) ==
    IF i > Len(rows) THEN data
    ELSE LET r == rows[i]
             key == <<r.acct, r.num>>
             old == IF key \in DOMAIN data THEN data[key] ELSE NoFixtures
             new == CASE r.type = BEDROOM_CODE -> [old EXCEPT !.bedrooms = r.units]
                      [] r.type = FULL_BATH_CODE -> [old EXCEPT !.fullBaths = r.units]
                      [] r.type = HALF_BATH_CODE -> [old EXCEPT !.halfBaths = r.units]
                      [] OTHER -> old
         IN  IF r.type \notin {BEDROOM_CODE, FULL_BATH_CODE, HALF_BATH_CODE}
             THEN FixturesLoop(rows, i + 1, data)
             ELSE FixturesLoop(rows, i + 1,
                               [k \in DOMAIN data \cup {key} |->
                                   IF k = key THEN new ELSE data[k]])

\* FixturesAggregator.load_fixtures_file: a file that cannot be opened or
\* read leaves the cache as it is; one that can replaces it
LoadFixturesFile(cache, file) ==
    IF file.readable THEN FixturesLoop(file.rows, 1, EmptyCache) ELSE cache

\* FixturesAggregator.get_fixtures
GetFixtures(cache, acct, num) ==
    IF <<acct, num>> \in DOMAIN cache THEN cache[<<acct, num>>] ELSE NoFixtures

\* FixturesAggregator.get_bedroom_count
GetBedroomCount(cache, acct, num) == GetFixtures(cache, acct, num).bedrooms

\* FixturesAggregator.get_bathroom_count, in half baths
GetBathroomCount(cache, acct, num) ==
    2 * GetFixtures(cache, acct, num).fullBaths + GetFixtures(cache, acct, num).halfBaths

(***************************************************************************)
(* ModelLoader (data/etl_pipeline/model_loader.py).                        *)
(***************************************************************************)
\* ModelLoader._get_bedrooms
GetBedrooms(cache, acct, num, rec) ==
    IF GetBedroomCount(cache, acct, num) > 0 THEN GetBedroomCount(cache, acct, num)
    ELSE rec.bedrooms

\* ModelLoader._get_bathrooms, in half baths
GetBathrooms(cache, acct, num, rec) ==
    IF GetBathroomCount(cache, acct, num) > 0 THEN GetBathroomCount(cache, acct, num)
    ELSE LET full == IF rec.fullBaths = NoValue THEN 0 ELSE rec.fullBaths
             half == IF rec.halfBaths = NoValue THEN 0 ELSE rec.halfBaths
         IN  IF 2 * full + half > 0 THEN 2 * full + half ELSE NoValue

\* ModelLoader._get_half_baths
GetHalfBaths(cache, acct, num, rec) ==
    IF GetFixtures(cache, acct, num).halfBaths > 0
    THEN GetFixtures(cache, acct, num).halfBaths
    ELSE rec.halfBaths

DefaultBatchSize == 5000   \* batch_size of a ModelLoader built without one

LoadState0 ==
    [buf |-> <<>>, ins |-> <<>>, flushes |-> 0,
     loaded |-> 0, invalid |-> 0, skipped |-> 0, error |-> FALSE]

ResultOf(st) ==
    [loaded |-> st.loaded, invalid |-> st.invalid, skipped |-> st.skipped,
     error |-> st.error]

\* Model.objects.bulk_create(buf, ignore_conflicts=True); records_loaded +=
\* len(buf); buf.clear().  failAt is the flush the store rejects (0: none).
FlushIgnoreConflicts(st, failAt) ==
    IF st.flushes + 1 = failAt
    THEN [st EXCEPT !.flushes = @ + 1, !.error = TRUE]
    ELSE [st EXCEPT !.flushes = @ + 1, !.ins = @ \o st.buf,
                    !.loaded = @ + Len(st.buf), !.buf = <<>>]

\* "if buf:" after the loop
FinalFlush(st, failAt) ==
    IF st.error \/ st.buf = <<>> THEN st ELSE FlushIgnoreConflicts(st, failAt)

\* the loop of load_property_records over records[i..]
RECURSIVE PropertyLoop(_, _, _, _, _)
PropertyLoop(records, i, st, size, failAt) ==
    IF st.error \/ i > Len(records) THEN st
    ELSE IF records[i] = NoAcct
    THEN PropertyLoop(records, i + 1, [st EXCEPT !.skipped = @ + 1], size, failAt)
    ELSE LET a == [st EXCEPT !.buf = Append(@, records[i])]
             b == IF Len(a.buf) >= size THEN FlushIgnoreConflicts(a, failAt) ELSE a
         IN  PropertyLoop(records, i + 1, b, size, failAt)

\* the rows a property load adds: ids are drawn from the identity sequence
PropertyRows(accts, seq0) ==
    [k \in 1..Len(accts) |-> [id |-> seq0 + k, acct |-> accts[k]]]

\* a reset_cache that leaves the cached accounts in place
ResetCacheKeeps(ld) == ld

\* ModelLoader.reset_cache
ResetCache(ld) == [ld EXCEPT !.validAccounts = <<>>, !.accountToProperty = <<>>]

\* ModelLoader.load_property_records(records, truncate): the store and the
\* loader afterwards, and the ModelLoadResult returned
LoadPropertyRecords(d, ld, records, truncate, failAt) ==
    LET base == IF truncate THEN TruncatePropertyCascade(d) ELSE d
        st == FinalFlush(PropertyLoop(records, 1, LoadState0, ld.batchSize, failAt),
                         failAt)
    IN  [db |-> [base EXCEPT
                    !.props = IF st.error THEN @ ELSE @ \o PropertyRows(st.ins, base.seq),
                    !.seq = @ + Len(st.ins)],
         loader |-> ResetCache(ld),
         result |-> ResultOf(st)]

\* ModelLoader._get_valid_accounts / _get_account_to_property_map: filled
\* from the store on first use, reused afterwards
GetValidAccounts(d, ld) ==
    IF ld.validAccounts = <<>> THEN ValuesListAccounts(d.props) ELSE ld.validAccounts[1]

GetAccountToPropertyMap(d, ld) ==
    IF ld.accountToProperty = <<>> THEN ValuesListAccountId(d.props)
    ELSE ld.accountToProperty[1]

FillCache(d, ld) ==
    [ld EXCEPT !.validAccounts = <<GetValidAccounts(d, ld)>>,
               !.accountToProperty = <<GetAccountToPropertyMap(d, ld)>>]

\* the model instance built from one child record
ChildRow(kind, rec, pid, now) ==
    IF kind = "building"
    THEN [pid |-> pid, acct |-> rec.acct, num |-> rec.num,
          active |-> TRUE, batch |-> now]
    ELSE [pid |-> pid, acct |-> rec.acct, code |-> rec.code, num |-> rec.num,
          active |-> TRUE, batch |-> now]

\* building a BuildingDetail reads account_num and building_num, names that
\* load_building_details never binds: the constructor call raises NameError
BuildingRowRaises == TRUE

\* the loop of load_building_details / load_extra_features over records[i..]
\* the BuildingDetail that load_building_details means to build
BuildingRow(rec, pid, now, fx) ==
    [bedrooms |-> GetBedrooms(fx, rec.acct, rec.num, rec),
     bathrooms |-> GetBathrooms(fx, rec.acct, rec.num, rec),
     halfBaths |-> GetHalfBaths(fx, rec.acct, rec.num, rec)]
       @@ ChildRow("building", rec, pid, now)

RECURSIVE ChildLoop(_, _, _, _, _, _, _, _, _, _)
ChildLoop(kind, records, i, st, valid, map, size, failAt, now, fx) ==
    IF st.error \/ i > Len(records) THEN st
    ELSE LET rec == records[i] IN
         IF rec.acct = NoAcct
         THEN ChildLoop(kind, records, i + 1, [st EXCEPT !.skipped = @ + 1],
                        valid, map, size, failAt, now, fx)
         ELSE IF rec.acct \notin valid \/ rec.acct \notin DOMAIN map
         THEN ChildLoop(kind, records, i + 1, [st EXCEPT !.invalid = @ + 1],
                        valid, map, size, failAt, now, fx)
         ELSE IF kind = "building" /\ BuildingRowRaises
         THEN [st EXCEPT !.error = TRUE]
         ELSE LET row == IF kind = "building"
                         THEN BuildingRow(rec, map[rec.acct], now, fx)
                         ELSE ChildRow(kind, rec, map[rec.acct], now)
                  a == [st EXCEPT !.buf = Append(@, row)]
                  b == IF Len(a.buf) >= size THEN FlushIgnoreConflicts(a, failAt) ELSE a
              IN  ChildLoop(kind, records, i + 1, b, valid, map, size, failAt, now, fx)

\* leaving "with transaction.atomic()": the deferred foreign key is checked
\* at commit
CommitChild(st, props) ==
    IF ~st.error /\ ForeignKeyViolated(st.ins, props) THEN [st EXCEPT !.error = TRUE]
    ELSE st

\* ModelLoader.load_building_details / load_extra_features(records, truncate)
LoadChildRecords(kind, d, ld, records, truncate, failAt, now) ==
    LET ld1 == FillCache(d, ld)
        base == IF truncate THEN TruncateChild(d, kind) ELSE d
        st == CommitChild(
                 FinalFlush(ChildLoop(kind, records, 1, LoadState0, ld1.validAccounts[1],
                                      ld1.accountToProperty[1], ld1.batchSize, failAt, now,
                                      ld1.fixtures),
                            failAt),
                 base.props)
    IN  [db |-> IF st.error THEN base
                ELSE WithChildTable(base, kind, ChildTable(base, kind) \o st.ins),
         loader |-> ld1,
         result |-> ResultOf(st)]

LoadBuildingDetails(d, ld, records, truncate, failAt, now) ==
    LoadChildRecords("building", d, ld, records, truncate, failAt, now)

LoadExtraFeatures(d, ld, records, truncate, failAt, now) ==
    LoadChildRecords("feature", d, ld, records, truncate, failAt, now)

(***************************************************************************)
(* Input files.                                                            *)
(***************************************************************************)
PropertyFiles == SeqsUpTo(0..MaxAcct, MaxFileLen)

\* building_res.txt as HCAD ships it has no room columns
BuildingRecords ==
    [acct : 0..MaxAcct, num : Nums, bedrooms : {NoValue}, fullBaths : {NoValue},
     halfBaths : {NoValue}]

FeatureRecords == [acct : 0..MaxAcct, code : FeatureCodes, num : Nums]

BuildingFiles == SeqsUpTo(BuildingRecords, MaxFileLen)

FeatureFiles == SeqsUpTo(FeatureRecords, MaxFileLen)

\* the flush that the store rejects: none, or one of those a file can reach
FailPoints == 0..MaxFileLen

(***************************************************************************)
(* The ModelLoader called directly, one load after another, by one loader  *)
(* instance.                                                               *)
(***************************************************************************)
InitLoader ==
    /\ db = EmptyDb
    /\ loader \in [batchSize : 1..MaxBatchSize, validAccounts : {<<>>},
                   accountToProperty : {<<>>}, fixtures : {EmptyCache}]
    /\ clock = 1
    /\ orch = [pc |-> "unused"]
    /\ task = [pc |-> "unused"]
    /\ call = [op |-> "none"]
    /\ result = [loaded |-> 0, invalid |-> 0, skipped |-> 0, error |-> FALSE]

Apply(out, c) ==
    /\ db' = out.db
    /\ loader' = out.loader
    /\ result' = out.result
    /\ call' = c

CallLoadPropertyRecords ==
    \E records \in PropertyFiles, truncate \in BOOLEAN, failAt \in FailPoints :
        /\ (IF truncate THEN 0 ELSE db.seq) + Len(records) <= MaxRows
        /\ Apply(LoadPropertyRecords(db, loader, records, truncate, failAt),
                 [op |-> "load_property_records", records |-> records,
                  truncate |-> truncate, failAt |-> failAt])
        /\ UNCHANGED <<clock, orch, task>>

CallLoadBuildingDetails ==
    \E records \in BuildingFiles, truncate \in BOOLEAN, failAt \in FailPoints :
        /\ (IF truncate THEN 0 ELSE Len(db.builds)) + Len(records) <= MaxRows
        /\ Apply(LoadBuildingDetails(db, loader, records, truncate, failAt, clock),
                 [op |-> "load_building_details", records |-> records,
                  truncate |-> truncate, failAt |-> failAt])
        /\ UNCHANGED <<clock, orch, task>>

CallLoadExtraFeatures ==
    \E records \in FeatureFiles, truncate \in BOOLEAN, failAt \in FailPoints :
        /\ (IF truncate THEN 0 ELSE Len(db.feats)) + Len(records) <= MaxRows
        /\ Apply(LoadExtraFeatures(db, loader, records, truncate, failAt, clock),
                 [op |-> "load_extra_features", records |-> records,
                  truncate |-> truncate, failAt |-> failAt])
        /\ UNCHANGED <<clock, orch, task>>

\* time passes
Tick ==
    /\ clock < MaxClock
    /\ clock' = clock + 1
    /\ UNCHANGED <<db, loader, orch, task, call, result>>

NextLoader ==
    \/ CallLoadPropertyRecords
    \/ CallLoadBuildingDetails
    \/ CallLoadExtraFeatures

SpecLoader == InitLoader /\ [][NextLoader]_vars

(***************************************************************************)
(* LoadManager (data/etl_pipeline/load.py), loading PropertyRecord rows    *)
(* with bulk_create and ExtraFeature rows with load_with_fk.               *)
(***************************************************************************)
BulkState0 ==
    [buf |-> <<>>, ins |-> <<>>, flushes |-> 0, loaded |-> 0, failed |-> 0,
     error |-> FALSE]

\* LoadManager._flush_buffer: a rejected batch is counted as failed and the
\* exception is raised again
FlushBuffer(st, failAt) ==
    IF st.flushes + 1 = failAt
    THEN [st EXCEPT !.flushes = @ + 1, !.failed = @ + Len(st.buf), !.error = TRUE]
    ELSE [st EXCEPT !.flushes = @ + 1, !.ins = @ \o st.buf,
                    !.loaded = @ + Len(st.buf)]

\* the loop of LoadManager.bulk_create over records[i..]: buffer.clear()
\* follows a flush that returned
RECURSIVE BulkLoop(_, _, _, _, _)
BulkLoop(records, i, st, size, failAt) ==
    IF st.error \/ i > Len(records) THEN st
    ELSE LET a == [st EXCEPT !.buf = Append(@, records[i])]
             f == FlushBuffer(a, failAt)
             b == IF Len(a.buf) >= size
                  THEN (IF f.error THEN f ELSE [f EXCEPT !.buf = <<>>])
                  ELSE a
         IN  BulkLoop(records, i + 1, b, size, failAt)

\* "if buffer:" after the loop
BulkFinalFlush(st, failAt) ==
    IF st.error \/ st.buf = <<>> THEN st ELSE FlushBuffer(st, failAt)

\* the whole of bulk_create runs inside one transaction.atomic(): an
\* exception leaving it rolls back every batch written so far
BulkCommit(d, st) ==
    IF st.error THEN [d EXCEPT !.seq = @ + Len(st.ins)]
    ELSE [d EXCEPT !.props = @ \o PropertyRows(st.ins, d.seq), !.seq = @ + Len(st.ins)]

\* LoadManager.bulk_create(PropertyRecord, records, batch_size)
BulkCreate(d, records, size, failAt) ==
    LET st == BulkFinalFlush(BulkLoop(records, 1, BulkState0, size, failAt), failAt)
    IN  [db |-> BulkCommit(d, st),
         result |-> [success |-> ~st.error, loaded |-> st.loaded, updated |-> 0,
                     failed |-> st.failed]]

\* fk_cache = {getattr(obj, fk_lookup): obj for obj in fk_model.objects.all()}
FkCache(props) == ValuesListAccountId(props)

\* the loop of LoadManager.load_with_fk over records[i..]
RECURSIVE FkLoop(_, _, _, _, _, _)
FkLoop(records, i, st, cache, size, now) ==
    IF i > Len(records) THEN st
    ELSE LET rec == records[i] IN
         IF rec.acct \notin DOMAIN cache
         THEN FkLoop(records, i + 1, [st EXCEPT !.failed = @ + 1], cache, size, now)
         ELSE LET a == [st EXCEPT !.buf = Append(@, ChildRow("feature", rec, cache[rec.acct], now))]
                  b == IF Len(a.buf) >= size
                       THEN [a EXCEPT !.ins = @ \o a.buf, !.loaded = @ + Len(a.buf),
                                      !.buf = <<>>, !.flushes = @ + 1]
                       ELSE a
              IN  FkLoop(records, i + 1, b, cache, size, now)

\* LoadManager.load_with_fk(ExtraFeature, records, fk_model=PropertyRecord)
LoadWithFk(d, records, size, now) ==
    LET a == FkLoop(records, 1, BulkState0, FkCache(d.props), size, now)
        st == IF a.buf = <<>> THEN a
              ELSE [a EXCEPT !.ins = @ \o a.buf, !.loaded = @ + Len(a.buf), !.buf = <<>>]
    IN  [db |-> [d EXCEPT !.feats = @ \o st.ins],
         result |-> [success |-> TRUE, loaded |-> st.loaded, updated |-> 0,
                     failed |-> st.failed]]

InitLoadManager ==
    /\ db = EmptyDb
    /\ loader = [batchSize |-> 1, validAccounts |-> <<>>, accountToProperty |-> <<>>,
                 fixtures |-> EmptyCache]
    /\ clock = 1
    /\ orch = [pc |-> "unused"]
    /\ task = [pc |-> "unused"]
    /\ call = [op |-> "none"]
    /\ result = [success |-> TRUE, loaded |-> 0, updated |-> 0, failed |-> 0]

CallBulkCreate ==
    \E records \in PropertyFiles, size \in 1..MaxBatchSize, failAt \in FailPoints :
        /\ db.seq + Len(records) <= MaxRows
        /\ LET out == BulkCreate(db, records, size, failAt)
           IN  /\ db' = out.db
               /\ result' = out.result
        /\ call' = [op |-> "bulk_create", records |-> records, size |-> size,
                    failAt |-> failAt]
        /\ UNCHANGED <<loader, clock, orch, task>>

CallLoadWithFk ==
    \E records \in FeatureFiles, size \in 1..MaxBatchSize :
        /\ Len(db.feats) + Len(records) <= MaxRows
        /\ LET out == LoadWithFk(db, records, size, clock)
           IN  /\ db' = out.db
               /\ result' = out.result
        /\ call' = [op |-> "load_with_fk", records |-> records, size |-> size]
        /\ UNCHANGED <<loader, clock, orch, task>>

NextLoadManager ==
    \/ CallBulkCreate
    \/ CallLoadWithFk

SpecLoadManager == InitLoadManager /\ [][NextLoadManager]_vars

(***************************************************************************)
(* The transformer (data/etl_pipeline/transform.py): iter_records drops     *)
(* every row that fails validation; account_number is a required field of  *)
(* the three schemas.                                                       *)
(***************************************************************************)
IterRecords(rows) == SelectSeq(rows, LAMBDA r : r.acct # NoAcct)

IterPropertyRecords(rows) == SelectSeq(rows, LAMBDA a : a # NoAcct)

(***************************************************************************)
(* Data sources (data/etl_pipeline/config.py).                              *)
(***************************************************************************)
Sources == {"Real Account Owner", "Real Building Land", "GIS Parcels", "Hearing Files"}

SourceRequired(s) == s # "Hearing Files"

SourceIsGis(s) == s = "GIS Parcels"

SourcePriority(s) ==
    CASE s = "Real Account Owner" -> 10
      [] s = "Real Building Land" -> 20
      [] s = "GIS Parcels" -> 50
      [] s = "Hearing Files" -> 95

\* sorted(S, key=lambda s: s.priority)
RECURSIVE SortedByPriority(_)
SortedByPriority(S) ==
    IF S = {} THEN <<>>
    ELSE LET first == CHOOSE s \in S : \A t \in S : SourcePriority(s) <= SourcePriority(t)
         IN  <<first>> \o SortedByPriority(S \ {first})

\* ETLConfig.get_all_sources / get_required_sources
GetAllSources == SortedByPriority(Sources)

GetRequiredSources == SelectSeq(GetAllSources, SourceRequired)

\* the data files with a schema that a source's archive holds
SchemaFiles(s) ==
    CASE s = "Real Account Owner" -> {"real_acct"}
      [] s = "Real Building Land" -> {"building_res", "extra_features"}
      [] OTHER -> {}

\* the orders in which rglob may list a set of files
FileOrders(F) == {o \in SeqsUpTo(F, Cardinality(F)) : Len(o) = Cardinality(F) /\ Range(o) = F}

(***************************************************************************)
(* ETLOrchestrator (data/etl_pipeline/orchestrator.py).                     *)
(***************************************************************************)
MaxOrchFileLen == 1   \* records in one file the pipeline reads
MaxRuns == 2          \* calls of execute on one orchestrator, where it is called again
Callbacks == 2        \* callbacks registered for each stage, and for completion
MaxMaxRetries == 2    \* RetryConfig.max_retries is 0..MaxMaxRetries
MaxInitialDelay == 2  \* RetryConfig.initial_delay is 1..MaxInitialDelay (seconds)
MaxMaxDelay == 3      \* RetryConfig.max_delay is 1..MaxMaxDelay (seconds)
MaxBase == 2          \* RetryConfig.exponential_base is 1..MaxBase
MaxBatch == 3         \* sources in one call of download_batch
MaxStrLen == 5        \* characters in a raw field value
MaxMaxLength == 3     \* FieldSchema.max_length is 0 (none) .. MaxMaxLength
MaxTransformRows == 3 \* rows in a file given to the transformer alone
MaxRowErrors == 2     \* validation errors of one row
MaxAbort == 2         \* max_errors_before_abort is 1..MaxAbort
MaxParallel == 2      \* max_parallel is 1..MaxParallel

StageNames == {"download", "extract", "load"}

NotRun == [ran |-> FALSE, success |-> TRUE, error |-> FALSE]

\* the StageResult of _execute_download / _execute_extract when the sources
\* in failed did not succeed: an error names them, and only a required one
\* makes the stage unsuccessful
ExecuteDownload(sources, failed) ==
    [ran |-> TRUE, success |-> \A s \in failed : ~SourceRequired(s), error |-> failed # {}]

ExecuteExtract(sources, failed) ==
    [ran |-> TRUE, success |-> \A s \in failed : ~SourceRequired(s), error |-> failed # {}]

\* all(r.success for r in self.result.stages.values())
AllSuccess(stages) == \A n \in StageNames : stages[n].ran => stages[n].success

\* "Determine final status" at the end of the try block
FinalStatus(stages) == IF AllSuccess(stages) THEN "completed" ELSE "partial"

\* _run_stage_callbacks(stage, result) that lets a callback's exception
\* end the loop over the callbacks
RunStageCallbacksUnguarded(o, name, raising) ==
    [o EXCEPT !.stageCalls[name] = @ + (IF raising THEN 1 ELSE Callbacks)]

\* _run_stage_callbacks(stage, result) at the end of a stage method: every
\* callback registered for the stage is called inside its own try, whether
\* or not one of them is raising; stageCalls counts the calls of this run
RunStageCallbacks(o, name, raising) ==
    [o EXCEPT !.stageCalls[name] = @ + Callbacks]

\* the finally clause of execute: completed_at, then
\* _run_completion_callbacks, each callback inside its own try
Finally(o) == [o EXCEPT !.completed = TRUE, !.pc = "done", !.doneCalls = @ + Callbacks]

\* an except clause that lets the exception through: the finally clause
\* runs and the status stays as it was
RaiseEscapes(o) == Finally(o)

\* the except clause of execute
Raise(o) == Finally([o EXCEPT !.status = "failed"])

\* the end of the try block of execute
Finish(o) == Finally([o EXCEPT !.status = FinalStatus(o.stages)])

\* execute without the check that raises after an unsuccessful stage
RecordStageNeverRaises(o, name, sr, next) ==
    LET o1 == [o EXCEPT !.stages[name] = sr]
    IN  IF next = "done" THEN Finish(o1)
        ELSE [o1 EXCEPT !.pc = next]

\* execute raising after every unsuccessful stage, whatever continue_on_error
RecordStageAlwaysRaises(o, name, sr, next) ==
    LET o1 == [o EXCEPT !.stages[name] = sr]
    IN  IF ~sr.success THEN Raise(o1)
        ELSE IF next = "done" THEN Finish(o1)
        ELSE [o1 EXCEPT !.pc = next]

\* self.result.stages[stage] = stage_result, then the check that follows it
\* in execute, then on to the stage named by next
RecordStage(o, name, sr, next) ==
    LET o1 == [o EXCEPT !.stages[name] = sr]
    IN  IF ~sr.success /\ ~o.continueOnError THEN Raise(o1)
        ELSE IF next = "done" THEN Finish(o1)
        ELSE [o1 EXCEPT !.pc = next]

OrchFailPoints == 0..MaxOrchFileLen

\* building_res.txt as the pipeline may be given it, with room columns
OrchBuildingRecords ==
    [acct : 0..MaxAcct, num : Nums, bedrooms : {NoValue, MaxUnits},
     fullBaths : {NoValue}, halfBaths : {NoValue}]

OrchFiles(name) ==
    IF name = "real_acct" THEN SeqsUpTo(0..MaxAcct, MaxOrchFileLen)
    ELSE IF name = "building_res" THEN SeqsUpTo(OrchBuildingRecords, MaxOrchFileLen)
    ELSE SeqsUpTo(FeatureRecords, MaxOrchFileLen)

\* fixtures.txt in the extract directory of Real Building Land: absent,
\* present and unreadable, or present with rows
FixtureRows ==
    [acct : {1}, num : Nums, type : {BEDROOM_CODE}, units : {MaxUnits}]

FixturesFiles ==
    {[exists |-> FALSE, readable |-> FALSE, rows |-> <<>>],
     [exists |-> TRUE, readable |-> FALSE, rows |-> <<>>]}
      \cup [exists : {TRUE}, readable : {TRUE}, rows : SeqsUpTo(FixtureRows, MaxOrchFileLen)]

\* _preload_fixtures(sources): the cache of the loader's aggregator afterwards
PreloadFixtures(sources, cache, file) ==
    IF "Real Building Land" \in Range(sources)
    THEN IF file.exists THEN LoadFixturesFile(cache, file) ELSE cache
    ELSE cache

\* what _preload_fixtures logs
PreloadOutcome(sources, file) ==
    IF "Real Building Land" \notin Range(sources) THEN "no source"
    ELSE IF ~file.exists THEN "missing"
    ELSE IF ~file.readable THEN "unreadable"
    ELSE "loaded"

\* _execute_transform_load that goes to the sources without the preload
BeginWithoutPreload(o) ==
    [o EXCEPT !.started = Append(@, "load"), !.pc = "source",
              !.idx = 1, !.loaded = 0, !.failed = 0, !.gis = 0]

\* _execute_transform_load up to the loop over the sources
BeginTransformLoad(o) ==
    [o EXCEPT !.started = Append(@, "load"), !.pc = "source", !.preloaded = TRUE,
              !.idx = 1, !.loaded = 0, !.failed = 0, !.gis = 0]

Init ==
    /\ db = EmptyDb
    /\ loader = [batchSize |-> DefaultBatchSize, validAccounts |-> <<>>,
                 accountToProperty |-> <<>>, fixtures |-> EmptyCache]
    /\ clock = 1
    /\ orch \in [pc : {"idle"}, status : {"none"}, continueOnError : BOOLEAN,
                 sources : {<<>>}, skipDownload : {FALSE}, skipExtract : {FALSE},
                 skipTransform : {FALSE}, skipLoad : {FALSE},
                 stages : {[n \in StageNames |-> NotRun]}, started : {<<>>},
                 idx : {0}, files : {<<>>}, loaded : {0}, failed : {0}, gis : {0},
                 loadErrors : {0}, completed : {FALSE}, preloaded : {FALSE},
                 runs : {0}, stageCalls : {[n \in StageNames |-> 0]}, doneCalls : {0}]
    /\ task = [pc |-> "unused"]
    /\ call = [op |-> "none"]
    /\ result = [loaded |-> 0, invalid |-> 0, skipped |-> 0, error |-> FALSE]

\* execute(sources, skip_download, skip_extract, skip_transform, skip_load)
\* up to the try block: self.result is a new PipelineResult
BeginExecute(o, S, sd, se, st, sl) ==
    [o EXCEPT !.pc = "download", !.status = "running",
              !.sources = IF S = {} THEN GetRequiredSources ELSE SortedByPriority(S),
              !.skipDownload = sd, !.skipExtract = se,
              !.skipTransform = st, !.skipLoad = sl,
              !.stages = [n \in StageNames |-> NotRun], !.started = <<>>,
              !.idx = 0, !.files = <<>>, !.loaded = 0, !.failed = 0, !.gis = 0,
              !.loadErrors = 0, !.completed = FALSE, !.preloaded = FALSE,
              !.runs = @ + 1, !.stageCalls = [n \in StageNames |-> 0], !.doneCalls = 0]

\* the first call of execute on a new orchestrator, with the default
\* sources or with a list the caller gives in priority order
Execute ==
    \E S \in SUBSET Sources, sd \in BOOLEAN, se \in BOOLEAN, st \in BOOLEAN, sl \in BOOLEAN :
        /\ orch.pc = "idle"
        /\ orch' = BeginExecute(orch, S, sd, se, st, sl)
        /\ call' = [op |-> "execute"]
        /\ UNCHANGED <<db, loader, clock, task, result>>

\* a download stage that runs whatever skip_download says
StageDownloadIgnoresSkip ==
    /\ orch.pc = "download"
    /\ \E failed \in SUBSET Range(orch.sources), raising \in BOOLEAN :
          /\ orch' = RecordStage(RunStageCallbacks(
                                    [orch EXCEPT !.started = Append(@, "download")],
                                    "download", raising),
                                 "download", ExecuteDownload(orch.sources, failed),
                                 "extract")
          /\ call' = [op |-> "download", failed |-> failed, cbRaised |-> raising]
    /\ UNCHANGED <<db, loader, clock, task, result>>

\* "if not skip_download:" and its body
StageDownload ==
    /\ orch.pc = "download"
    /\ \/ /\ orch.skipDownload
          /\ orch' = [orch EXCEPT !.pc = "extract"]
          /\ call' = [op |-> "download", failed |-> {}, cbRaised |-> FALSE]
       \/ /\ ~orch.skipDownload
          /\ \E failed \in SUBSET Range(orch.sources), raising \in BOOLEAN :
                /\ orch' = RecordStage(RunStageCallbacks(
                                          [orch EXCEPT !.started = Append(@, "download")],
                                          "download", raising),
                                       "download", ExecuteDownload(orch.sources, failed),
                                       "extract")
                /\ call' = [op |-> "download", failed |-> failed, cbRaised |-> raising]
    /\ UNCHANGED <<db, loader, clock, task, result>>

\* "if not skip_extract:" and its body
StageExtract ==
    /\ orch.pc = "extract"
    /\ \/ /\ orch.skipExtract
          /\ orch' = [orch EXCEPT !.pc = "transform_load"]
          /\ call' = [op |-> "extract", failed |-> {}, cbRaised |-> FALSE]
       \/ /\ ~orch.skipExtract
          /\ \E failed \in SUBSET Range(orch.sources), raising \in BOOLEAN :
                /\ orch' = RecordStage(RunStageCallbacks(
                                          [orch EXCEPT !.started = Append(@, "extract")],
                                          "extract", raising),
                                       "extract", ExecuteExtract(orch.sources, failed),
                                       "transform_load")
                /\ call' = [op |-> "extract", failed |-> failed, cbRaised |-> raising]
    /\ UNCHANGED <<db, loader, clock, task, result>>

\* "if not skip_transform or not skip_load:" and the start of
\* _execute_transform_load, where _preload_fixtures runs: it fills the
\* loader's fixtures aggregator and writes nothing to the store
StageTransformLoad ==
    /\ orch.pc = "transform_load"
    /\ \/ /\ orch.skipTransform /\ orch.skipLoad
          /\ orch' = Finish(orch)
          /\ call' = [op |-> "transform_load", fixtures |-> "skipped"]
          /\ UNCHANGED loader
       \/ /\ ~(orch.skipTransform /\ orch.skipLoad)
          /\ \E file \in FixturesFiles :
                /\ loader' = [loader EXCEPT
                                !.fixtures = PreloadFixtures(orch.sources, @, file)]
                /\ call' = [op |-> "transform_load",
                            fixtures |-> PreloadOutcome(orch.sources, file)]
          /\ orch' = BeginTransformLoad(orch)
    /\ UNCHANGED <<db, clock, task, result>>

\* _process_gis_source: what it returns when the extract path or the
\* shapefile is missing, when load_gis_parcels updates count rows, and when
\* load_gis_parcels raises
ProcessGisSource(outcome, count) ==
    CASE outcome = "missing" -> [loaded |-> 0, failed |-> 0]
      [] outcome = "updated" -> [loaded |-> count, failed |-> 0]
      [] outcome = "error" -> [loaded |-> 0, failed |-> 1]

\* one turn of "for source in sources:" in _execute_transform_load, up to
\* the listing of the source's files
NextSource ==
    /\ orch.pc = "source"
    /\ orch.idx <= Len(orch.sources)
    /\ LET s == orch.sources[orch.idx] IN
       IF SourceIsGis(s)
       THEN \E outcome \in {"missing", "updated", "error"}, count \in 0..Len(db.props) :
               LET r == ProcessGisSource(outcome, count)
               IN  orch' = [orch EXCEPT !.gis = @ + r.loaded, !.failed = @ + r.failed,
                                        !.idx = @ + 1]
       ELSE \E exists \in BOOLEAN, F \in SUBSET SchemaFiles(s) :
               \E order \in FileOrders(F) :
                  orch' = IF exists /\ order # <<>>
                          THEN [orch EXCEPT !.files = order, !.pc = "file"]
                          ELSE [orch EXCEPT !.idx = @ + 1]
    /\ call' = [op |-> "source"]
    /\ UNCHANGED <<db, loader, clock, task, result>>

\* after a file: the next file of the source, or the next source
FileDone(o) ==
    IF Len(o.files) > 1 THEN [o EXCEPT !.files = Tail(@)]
    ELSE [o EXCEPT !.files = <<>>, !.idx = @ + 1, !.pc = "source"]

\* the ModelLoader method _process_data_file calls for a file, always with
\* truncate=True
LoadFile(name, records, failAt) ==
    CASE name = "real_acct" -> LoadPropertyRecords(db, loader, records, TRUE, failAt)
      [] name = "building_res" -> LoadBuildingDetails(db, loader, records, TRUE, failAt, clock)
      [] name = "extra_features" -> LoadExtraFeatures(db, loader, records, TRUE, failAt, clock)

\* _process_data_file(file_path, skip_load) for the next file, and the two
\* totals it feeds
ProcessDataFile ==
    /\ orch.pc = "file"
    /\ LET name == Head(orch.files) IN
       \E rows \in OrchFiles(name), failAt \in OrchFailPoints, unreadable \in BOOLEAN :
          LET records == IF name = "real_acct" THEN IterPropertyRecords(rows)
                         ELSE IterRecords(rows)
              out == LoadFile(name, records, failAt)
          IN  /\ IF orch.skipLoad
                 THEN /\ failAt = 0
                      /\ orch' = IF unreadable THEN Raise(orch)
                                 ELSE FileDone([orch EXCEPT !.loaded = @ + Len(records)])
                      /\ UNCHANGED <<db, loader, result>>
                 ELSE /\ ~unreadable
                      /\ db' = out.db
                      /\ loader' = out.loader
                      /\ result' = out.result
                      /\ orch' = FileDone(
                            [orch EXCEPT
                               !.loaded = @ + out.result.loaded,
                               !.failed = @ + out.result.invalid + out.result.skipped,
                               !.loadErrors = @ + (IF out.result.error THEN 1 ELSE 0)])
              /\ call' = [op |-> "file", name |-> name, failAt |-> failAt,
                          records |-> IF name = "building_res" THEN records ELSE <<>>]
    /\ UNCHANGED <<clock, task>>

\* the end of _execute_transform_load: its StageResult keeps success=True,
\* with an error message when records failed; then the rest of execute
EndTransformLoad ==
    /\ orch.pc = "source"
    /\ orch.idx > Len(orch.sources)
    /\ \E raising \in BOOLEAN :
          /\ orch' = RecordStage(RunStageCallbacks(orch, "load", raising), "load",
                                 [ran |-> TRUE, success |-> TRUE, error |-> orch.failed > 0],
                                 "done")
          /\ call' = [op |-> "transform_load_end", cbRaised |-> raising]
    /\ UNCHANGED <<db, loader, clock, task, result>>

Next ==
    \/ Execute
    \/ StageDownload
    \/ StageExtract
    \/ StageTransformLoad
    \/ NextSource
    \/ ProcessDataFile
    \/ EndTransformLoad

Spec == Init /\ [][Next]_vars

(***************************************************************************)
(* One orchestrator whose execute is called again after it has returned,   *)
(* each time over directories extracted beforehand: skip_download and      *)
(* skip_extract are True, so both stage tests of execute are passed over.  *)
(***************************************************************************)
ExtractedSources == {"Real Building Land", "Hearing Files"}

\* the caller's list is taken as it is given ("sources = sources or ..."),
\* in any order
ExecuteOverExtracted ==
    \E S \in (SUBSET ExtractedSources) \ {{}}, st \in BOOLEAN, sl \in BOOLEAN :
      \E given \in FileOrders(S) :
        /\ orch.pc \in {"idle", "done"}
        /\ orch.runs < MaxRuns
        /\ orch' = [BeginExecute(orch, S, TRUE, TRUE, st, sl) EXCEPT
                      !.pc = "transform_load", !.sources = given]
        /\ call' = [op |-> "execute"]
        /\ UNCHANGED <<db, loader, clock, task, result>>

NextRerun ==
    \/ ExecuteOverExtracted
    \/ StageTransformLoad
    \/ NextSource
    \/ ProcessDataFile
    \/ EndTransformLoad

SpecRerun == Init /\ [][NextRerun]_vars

(***************************************************************************)
(* The loaders of data/etl.py and the task that imports building data      *)
(* with them (data/tasks_new.py).                                           *)
(***************************************************************************)
ChunkSize == 5000     \* chunk_size the task passes to the loaders

NoBatch == 0          \* exclude_batch_id=None

MaxTaskFileLen == 1   \* records in one file the task imports

\* rows of real_acct.txt: the account, and whether the row has an address
\* or a zip code
LegacyPropertyRows == [acct : 0..MaxAcct, addr : BOOLEAN]

LegacyPropertyFiles == SeqsUpTo(LegacyPropertyRows, MaxFileLen)

\* the limit argument of bulk_load_properties: 0 is None
Limits == 0..1

\* the loop of bulk_load_properties over rows[i..]; existing is
\* existing_accounts
RECURSIVE LegacyPropertyLoop(_, _, _, _, _, _)
LegacyPropertyLoop(rows, i, st, existing, chunk, limit) ==
    IF i > Len(rows) THEN st
    ELSE IF ~rows[i].addr \/ rows[i].acct \in existing
    THEN LegacyPropertyLoop(rows, i + 1, st, existing, chunk, limit)
    ELSE LET a == [st EXCEPT !.buf = Append(@, rows[i].acct)]
             b == IF Len(a.buf) >= chunk
                  THEN [a EXCEPT !.ins = @ \o a.buf, !.total = @ + Len(a.buf), !.buf = <<>>]
                  ELSE a
         IN  IF limit # 0 /\ b.total >= limit THEN b
             ELSE LegacyPropertyLoop(rows, i + 1, b, existing \cup {rows[i].acct},
                                     chunk, limit)

\* bulk_load_properties(filepath, chunk_size, limit, truncate)
BulkLoadProperties(d, rows, chunk, limit, truncate) ==
    LET base == IF truncate THEN TruncatePropertyCascade(d) ELSE d
        existing == IF truncate THEN {} ELSE ValuesListAccounts(d.props)
        a == LegacyPropertyLoop(rows, 1, [buf |-> <<>>, ins |-> <<>>, total |-> 0],
                                existing, chunk, limit)
        st == IF a.buf = <<>> THEN a
              ELSE [a EXCEPT !.ins = @ \o a.buf, !.total = @ + Len(a.buf), !.buf = <<>>]
    IN  [db |-> [base EXCEPT !.props = @ \o PropertyRows(st.ins, base.seq),
                             !.seq = @ + Len(st.ins)],
         result |-> [total |-> st.total]]

\* PropertyRecord.objects.filter(account_number=acct).first(): the row of
\* the account with the lowest id
FirstProperty(props, acct) ==
    LET ids == {props[i].id : i \in {j \in 1..Len(props) : props[j].acct = acct}}
    IN  CHOOSE x \in ids : \A y \in ids : x <= y

\* the loop of etl.load_building_details / etl.load_extra_features over
\* rows[i..]
RECURSIVE LegacyChildLoop(_, _, _, _, _, _, _, _)
LegacyChildLoop(kind, rows, i, st, props, valid, chunk, batch) ==
    IF i > Len(rows) THEN st
    ELSE LET rec == rows[i] IN
         IF rec.acct = NoAcct
         THEN LegacyChildLoop(kind, rows, i + 1, [st EXCEPT !.skipped = @ + 1],
                              props, valid, chunk, batch)
         ELSE IF rec.acct \notin valid
         THEN LegacyChildLoop(kind, rows, i + 1, [st EXCEPT !.invalid = @ + 1],
                              props, valid, chunk, batch)
         ELSE LET a == [st EXCEPT !.buf = Append(@, ChildRow(kind, rec,
                                                   FirstProperty(props, rec.acct), batch))]
                  b == IF Len(a.buf) >= chunk
                       THEN [a EXCEPT !.ins = @ \o a.buf, !.imported = @ + Len(a.buf),
                                      !.buf = <<>>]
                       ELSE a
              IN  LegacyChildLoop(kind, rows, i + 1, b, props, valid, chunk, batch)

\* etl.load_building_details(filepath, chunk_size, import_batch_id), which
\* always truncates, and etl.load_extra_features(filepath, chunk_size,
\* import_batch_id, truncate)
LegacyLoadChild(kind, d, rows, chunk, batch, truncate) ==
    LET valid == ValuesListAccounts(d.props)
        base == IF truncate THEN TruncateChild(d, kind) ELSE d
        a == LegacyChildLoop(kind, rows, 1,
                             [buf |-> <<>>, ins |-> <<>>, imported |-> 0, invalid |-> 0,
                              skipped |-> 0],
                             d.props, valid, chunk, batch)
        st == IF a.buf = <<>> THEN a
              ELSE [a EXCEPT !.ins = @ \o a.buf, !.imported = @ + Len(a.buf), !.buf = <<>>]
    IN  [db |-> WithChildTable(base, kind, ChildTable(base, kind) \o st.ins),
         result |-> [imported |-> st.imported, invalid |-> st.invalid,
                     skipped |-> st.skipped]]

\* query.update(is_active=False) on the active rows, but for those of the
\* excluded batch
Deactivate(rows, exclude) ==
    [i \in 1..Len(rows) |->
        IF rows[i].active /\ (exclude = NoBatch \/ rows[i].batch # exclude)
        THEN [rows[i] EXCEPT !.active = FALSE]
        ELSE rows[i]]

\* mark_old_records_inactive(exclude_batch_id)
MarkOldRecordsInactive(d, exclude) ==
    [d EXCEPT !.builds = Deactivate(@, exclude), !.feats = Deactivate(@, exclude)]

InitLegacy ==
    /\ db = EmptyDb
    /\ loader = [batchSize |-> 1, validAccounts |-> <<>>, accountToProperty |-> <<>>,
                 fixtures |-> EmptyCache]
    /\ clock = 1
    /\ orch = [pc |-> "unused"]
    /\ task = [pc |-> "idle", batch |-> NoBatch,
               before |-> [builds |-> <<>>, feats |-> <<>>]]
    /\ call = [op |-> "none"]
    /\ result = [total |-> 0]

\* the command that loads real_acct.txt, while no import task is running
CallBulkLoadProperties ==
    \E rows \in LegacyPropertyFiles, chunk \in 1..MaxBatchSize, limit \in Limits,
       truncate \in BOOLEAN :
        /\ task.pc \in {"idle", "done"}
        /\ (IF truncate THEN 0 ELSE db.seq) + Len(rows) <= MaxRows
        /\ LET out == BulkLoadProperties(db, rows, chunk, limit, truncate)
           IN  /\ db' = out.db
               /\ result' = out.result
        /\ call' = [op |-> "bulk_load_properties"]
        /\ UNCHANGED <<loader, clock, orch, task>>

\* download_and_import_building_data from "Generate batch ID" to the end of
\* the DEACTIVATING step
TaskDeactivate ==
    /\ task.pc \in {"idle", "done"}
    /\ task' = [pc |-> "buildings", batch |-> clock,
                before |-> [builds |-> db.builds, feats |-> db.feats]]
    /\ db' = MarkOldRecordsInactive(db, NoBatch)
    /\ call' = [op |-> "deactivate"]
    /\ UNCHANGED <<loader, clock, orch, result>>

\* "Import building details": building_res.txt may be missing
TaskImportBuildings ==
    /\ task.pc = "buildings"
    /\ \E exists \in BOOLEAN, rows \in SeqsUpTo(BuildingRecords, MaxTaskFileLen) :
          IF exists
          THEN LET out == LegacyLoadChild("building", db, rows, ChunkSize, task.batch, TRUE)
               IN  /\ db' = out.db
                   /\ result' = out.result
          ELSE /\ rows = <<>>
               /\ UNCHANGED <<db, result>>
    /\ task' = [task EXCEPT !.pc = "features"]
    /\ call' = [op |-> "import_buildings"]
    /\ UNCHANGED <<loader, clock, orch>>

\* "Import extra features": extra_features.txt may be missing
TaskImportFeatures ==
    /\ task.pc = "features"
    /\ \E exists \in BOOLEAN, rows \in SeqsUpTo(FeatureRecords, MaxTaskFileLen) :
          IF exists
          THEN LET out == LegacyLoadChild("feature", db, rows, ChunkSize, task.batch, TRUE)
               IN  /\ db' = out.db
                   /\ result' = out.result
          ELSE /\ rows = <<>>
               /\ UNCHANGED <<db, result>>
    /\ task' = [task EXCEPT !.pc = "linking"]
    /\ call' = [op |-> "import_features"]
    /\ UNCHANGED <<loader, clock, orch>>

\* the LINKING step and the return: every child row already has its
\* property, so link_orphaned_records finds nothing to link
TaskFinish ==
    /\ task.pc = "linking"
    /\ task' = [task EXCEPT !.pc = "done"]
    /\ call' = [op |-> "finish"]
    /\ UNCHANGED <<db, loader, clock, orch, result>>

NextLegacy ==
    \/ CallBulkLoadProperties
    \/ TaskDeactivate
    \/ TaskImportBuildings
    \/ TaskImportFeatures
    \/ TaskFinish
    \/ Tick

SpecLegacy == InitLegacy /\ [][NextLegacy]_vars

(***************************************************************************)
(* DownloadManager.download_file (data/etl_pipeline/download.py) for one   *)
(* source.  Delays are whole seconds before jitter; a slept delay is kept  *)
(* in tenths of a second, so that the jitter factor needs no fractions.    *)
(***************************************************************************)
RECURSIVE Pow(_, _)
Pow(b, n) == IF n = 0 THEN 1 ELSE b * Pow(b, n - 1)

\* RetryConfig
RetryConfigs ==
    [maxRetries : 0..MaxMaxRetries, initialDelay : 1..MaxInitialDelay,
     maxDelay : 1..MaxMaxDelay, base : 1..MaxBase, jitter : BOOLEAN]

\* _calculate_delay before the jitter: initial_delay * base ** attempt,
\* capped at max_delay
CappedDelay(cfg, attempt) ==
    IF cfg.initialDelay * Pow(cfg.base, attempt) < cfg.maxDelay
    THEN cfg.initialDelay * Pow(cfg.base, attempt)
    ELSE cfg.maxDelay

\* values of random.random(), in tenths
RandomTenths == {0, 5, 9}

\* _calculate_delay(attempt) when random.random() gives r tenths, in tenths
\* of a second: delay * (0.5 + random.random()) with jitter, delay without
CalculateDelay(cfg, attempt, r) ==
    IF cfg.jitter THEN CappedDelay(cfg, attempt) * (5 + r)
    ELSE CappedDelay(cfg, attempt) * 10

\* how one call of _download_with_progress ends:
\*   "ok"       the file is written and its checksum, if one is configured, matches
\*   "mismatch" the file is written and its checksum does not match
\*   "http"     a RequestException before the destination is opened
\*   "stream"   a RequestException while the body is read, the file part written
\*   "disk"     an OSError from open() or write()
Outcomes == {"ok", "mismatch", "http", "stream", "disk"}

\* a download_file that also catches ChecksumError in the clause for RequestException
RetryableWithChecksum(outcome) == outcome \in {"http", "stream", "mismatch"}

\* the exceptions the clause "except requests.exceptions.RequestException"
\* of download_file catches
Retryable(outcome) == outcome \in {"http", "stream"}

\* a download_file that sleeps after every failed attempt
SleepsAlways(cfg, attempt) == TRUE

\* "if attempt < self.download_config.retry.max_retries:"
SleepsAfter(cfg, attempt) == attempt < cfg.maxRetries

\* whether dest_path exists after an attempt that ended in outcome; partial
\* says whether a failing write had created the file
FileAfter(onDisk, outcome, partial) ==
    CASE outcome = "ok" -> TRUE
      [] outcome = "mismatch" -> FALSE
      [] outcome = "http" -> onDisk
      [] outcome = "stream" -> TRUE
      [] outcome = "disk" -> onDisk \/ partial

\* the DownloadResult of a call that has not returned
NoResult == [success |-> FALSE, attempts |-> 0, checksumVerified |-> FALSE, error |-> "none"]

InitDownload ==
    /\ db = EmptyDb
    /\ loader = [batchSize |-> DefaultBatchSize, validAccounts |-> <<>>,
                 accountToProperty |-> <<>>, fixtures |-> EmptyCache]
    /\ clock = 1
    /\ orch = [pc |-> "unused"]
    /\ task \in [pc : {"idle"}, cfg : RetryConfigs, checksum : BOOLEAN,
                 attempt : {0}, attempts : {0}, outcomes : {<<>>}, slept : {<<>>},
                 onDisk : BOOLEAN]
    /\ call = [op |-> "none"]
    /\ result = NoResult

\* download_file(source) up to the loop "for attempt in range(max_retries + 1)"
DownloadFile ==
    /\ task.pc = "idle"
    /\ task' = [task EXCEPT !.pc = "loop", !.attempt = 0, !.attempts = 0]
    /\ call' = [op |-> "download_file"]
    /\ UNCHANGED <<db, loader, clock, orch, result>>

\* one turn of the loop: _download_with_progress, then the return or the
\* except clause that catches what it raised, with the sleep of that clause;
\* after the last turn, the failed DownloadResult
DownloadAttempt ==
    /\ task.pc = "loop"
    /\ task.attempt <= task.cfg.maxRetries
    /\ \E outcome \in Outcomes, partial \in BOOLEAN, r \in RandomTenths :
          LET attempts == task.attempts + 1
              t == [task EXCEPT !.attempts = attempts,
                                !.outcomes = Append(@, outcome),
                                !.onDisk = FileAfter(@, outcome, partial)]
              failed == [success |-> FALSE, attempts |-> attempts,
                         checksumVerified |-> FALSE, error |-> outcome]
          IN  /\ outcome = "mismatch" => task.checksum
              /\ partial => outcome = "disk"
              /\ (r # 0) => (Retryable(outcome) /\ SleepsAfter(task.cfg, task.attempt)
                                /\ task.cfg.jitter)
              /\ IF outcome = "ok"
                 THEN /\ task' = [t EXCEPT !.pc = "returned"]
                      /\ result' = [success |-> TRUE, attempts |-> attempts,
                                    checksumVerified |-> task.checksum, error |-> "none"]
                 ELSE IF Retryable(outcome)
                 THEN LET u == IF SleepsAfter(task.cfg, task.attempt)
                               THEN [t EXCEPT !.slept = Append(@,
                                        CalculateDelay(task.cfg, task.attempt, r))]
                               ELSE t
                      IN  IF task.attempt < task.cfg.maxRetries
                          THEN /\ task' = [u EXCEPT !.attempt = @ + 1]
                               /\ UNCHANGED result
                          ELSE /\ task' = [u EXCEPT !.pc = "returned"]
                               /\ result' = failed
                 ELSE /\ task' = [t EXCEPT !.pc = "returned"]
                      /\ result' = failed
    /\ call' = [op |-> "attempt"]
    /\ UNCHANGED <<db, loader, clock, orch>>

NextDownload ==
    \/ DownloadFile
    \/ DownloadAttempt

SpecDownload == InitDownload /\ [][NextDownload]_vars

(***************************************************************************)
(* DownloadManager.download_batch (data/etl_pipeline/download.py).  A      *)
(* source is given by whether its url_template can be formatted; task      *)
(* holds the call: the futures submitted, those a worker is running, those *)
(* finished with their outcome, and the results list.                      *)
(***************************************************************************)
\* how download_file(source) ends: source.get_url, the first statement and
\* outside every try, raises when the template cannot be formatted;
\* otherwise a DownloadResult is returned, successful or failed
DownloadFileOutcomes(urlOk) == IF urlOk THEN {"ok", "failed"} ELSE {"raises"}

InitBatch ==
    /\ db = EmptyDb
    /\ loader = [batchSize |-> DefaultBatchSize, validAccounts |-> <<>>,
                 accountToProperty |-> <<>>, fixtures |-> EmptyCache]
    /\ clock = 1
    /\ orch = [pc |-> "unused"]
    /\ task \in [pc : {"idle"}, maxParallel : 1..MaxParallel,
                 sources : SeqsUpTo(BOOLEAN, MaxBatch), next : {1},
                 pending : {{}}, running : {{}}, finished : {{}}, results : {<<>>}]
    /\ call = [op |-> "none"]
    /\ result = <<>>

\* download_batch(sources, max_parallel) up to the downloads: the branch
\* taken, and in the parallel one every source submitted to the pool
DownloadBatch ==
    /\ task.pc = "idle"
    /\ task' = IF task.maxParallel = 1
               THEN [task EXCEPT !.pc = "sequential"]
               ELSE [task EXCEPT !.pc = "parallel", !.pending = 1..Len(task.sources)]
    /\ call' = [op |-> "download_batch"]
    /\ UNCHANGED <<db, loader, clock, orch, result>>

\* one turn of "for idx, source in enumerate(sources, 1)": download_file is
\* called with no try around it
SequentialDownload ==
    /\ task.pc = "sequential"
    /\ task.next <= Len(task.sources)
    /\ \E outcome \in DownloadFileOutcomes(task.sources[task.next]) :
          task' = IF outcome = "raises" THEN [task EXCEPT !.pc = "raised"]
                  ELSE [task EXCEPT !.next = @ + 1,
                                    !.results = Append(@, [src |-> task.next,
                                                           success |-> outcome = "ok"])]
    /\ call' = [op |-> "sequential"]
    /\ UNCHANGED <<db, loader, clock, orch, result>>

\* a free worker of the ThreadPoolExecutor takes the oldest future waiting
WorkerStarts ==
    /\ task.pc = "parallel"
    /\ task.pending # {}
    /\ Cardinality(task.running) < task.maxParallel
    /\ LET i == CHOOSE k \in task.pending : \A m \in task.pending : k <= m
       IN  task' = [task EXCEPT !.pending = @ \ {i}, !.running = @ \cup {i}]
    /\ call' = [op |-> "worker"]
    /\ UNCHANGED <<db, loader, clock, orch, result>>

\* a worker's download_file ends; the future holds its result or exception
WorkerFinishes ==
    /\ task.pc = "parallel"
    /\ \E i \in task.running :
          \E outcome \in DownloadFileOutcomes(task.sources[i]) :
             task' = [task EXCEPT !.running = @ \ {i},
                                  !.finished = @ \cup {<<i, outcome>>}]
    /\ call' = [op |-> "worker"]
    /\ UNCHANGED <<db, loader, clock, orch, result>>

\* one turn of "for idx, future in enumerate(as_completed(...))":
\* future.result() inside try, a failed DownloadResult in the except clause
CollectFuture ==
    /\ task.pc = "parallel"
    /\ \E f \in task.finished :
          task' = [task EXCEPT !.finished = @ \ {f},
                               !.results = Append(@, [src |-> f[1],
                                                      success |-> f[2] = "ok"])]
    /\ call' = [op |-> "collect"]
    /\ UNCHANGED <<db, loader, clock, orch, result>>

\* the summary and "return results"
BatchReturn ==
    /\ \/ task.pc = "sequential" /\ task.next > Len(task.sources)
       \/ /\ task.pc = "parallel"
          /\ task.pending = {} /\ task.running = {} /\ task.finished = {}
    /\ task' = [task EXCEPT !.pc = "returned"]
    /\ result' = task.results
    /\ call' = [op |-> "return"]
    /\ UNCHANGED <<db, loader, clock, orch>>

NextBatch ==
    \/ DownloadBatch
    \/ SequentialDownload
    \/ WorkerStarts
    \/ WorkerFinishes
    \/ CollectFuture
    \/ BatchReturn

SpecBatch == InitBatch /\ [][NextBatch]_vars

(***************************************************************************)
(* One source on its way through a run of execute, with the files it       *)
(* leaves in the download and the extract directory                        *)
(* (data/etl_pipeline/download.py, extract.py, orchestrator.py).  task is  *)
(* the file system and the extract configuration:                          *)
(*   archive  the file download_dir/filename: "none", "old" (a valid       *)
(*            archive of an earlier run), "partial" (what a failed download*)
(*            wrote), "new" (this run's, valid), "corrupt" (this run's,    *)
(*            downloaded whole but not a readable archive)                 *)
(*   dest     the source's extract directory: whether it exists and the    *)
(*            archives ("old", "new") its files were extracted from        *)
(*   loaded   the archives whose files Transform/Load has read in this run *)
(***************************************************************************)
\* download_dir/filename after download_file ended in outcome ("corrupt":
\* a successful download of a file that is no readable archive); partial
\* says whether a failing write had opened the file
ArchiveAfterDownload(archive, outcome, partial) ==
    CASE outcome = "ok" -> "new"
      [] outcome = "corrupt" -> "corrupt"
      [] outcome = "mismatch" -> "none"
      [] outcome = "http" -> archive
      [] outcome = "stream" -> "partial"
      [] outcome = "disk" -> IF partial THEN "partial" ELSE archive

\* verify_archive: False for a missing file and for a zip or tar that does
\* not validate, True for a format it cannot check
VerifyArchive(archive, format) ==
    /\ archive # "none"
    /\ format = "zip" => archive \in {"old", "new"}

\* extract_archive(source): the extract directory and the ExtractResult;
\* fails says whether writing a member raises
ExtractArchive(archive, dest, cfg, fails) ==
    IF cfg.validate /\ ~VerifyArchive(archive, cfg.format)
    THEN [dest |-> dest, success |-> FALSE, error |-> "validation"]
    ELSE LET made == [exists |-> TRUE,
                      content |-> IF cfg.overwrite THEN {} ELSE dest.content]
         IN  IF cfg.format # "zip"
             THEN [dest |-> made, success |-> FALSE, error |-> "unsupported"]
             ELSE IF fails \/ archive \notin {"old", "new"}
             THEN [dest |-> [exists |-> FALSE, content |-> {}],
                   success |-> FALSE, error |-> "exception"]
             ELSE [dest |-> [made EXCEPT !.content = @ \cup {archive}],
                   success |-> TRUE, error |-> "none"]

\* one turn of the loop of extract_batch
ExtractBatchTurn(archive, dest, cfg, fails) ==
    IF archive = "none"
    THEN [dest |-> dest, success |-> FALSE, error |-> "not found"]
    ELSE ExtractArchive(archive, dest, cfg, fails)

InitFiles ==
    /\ db = EmptyDb
    /\ loader = [batchSize |-> DefaultBatchSize, validAccounts |-> <<>>,
                 accountToProperty |-> <<>>, fixtures |-> EmptyCache]
    /\ clock = 1
    /\ orch \in [pc : {"download"}, status : {"running"}, continueOnError : BOOLEAN,
                 source : {"Real Building Land", "Hearing Files"},
                 stages : {[n \in StageNames |-> NotRun]}, completed : {FALSE},
                 doneCalls : {0}]
    /\ task \in [archive : {"none", "old"},
                 dest : {[exists |-> FALSE, content |-> {}],
                         [exists |-> TRUE, content |-> {"old"}]},
                 loaded : {{}},
                 cfg : [format : {"zip", "other"}, validate : BOOLEAN,
                        overwrite : BOOLEAN]]
    /\ call = [op |-> "execute"]
    /\ result = [success |-> TRUE, error |-> "none"]

\* the Download stage of execute for the one source
FilesDownload ==
    /\ orch.pc = "download"
    /\ \E outcome \in {"ok", "corrupt", "mismatch", "http", "stream", "disk"},
          partial \in BOOLEAN :
          /\ partial => outcome = "disk"
          /\ task' = [task EXCEPT !.archive = ArchiveAfterDownload(@, outcome, partial)]
          /\ result' = [success |-> outcome \in {"ok", "corrupt"}, error |-> outcome]
          /\ orch' = RecordStage(orch, "download",
                         ExecuteDownload(<<orch.source>>,
                            IF outcome \in {"ok", "corrupt"} THEN {} ELSE {orch.source}),
                         "extract")
    /\ call' = [op |-> "download"]
    /\ UNCHANGED <<db, loader, clock>>

\* the Extract stage of execute for the one source
FilesExtract ==
    /\ orch.pc = "extract"
    /\ \E fails \in BOOLEAN :
          LET r == ExtractBatchTurn(task.archive, task.dest, task.cfg, fails)
          IN  /\ task' = [task EXCEPT !.dest = r.dest]
              /\ result' = [success |-> r.success, error |-> r.error]
              /\ orch' = RecordStage(orch, "extract",
                             ExecuteExtract(<<orch.source>>,
                                IF r.success THEN {} ELSE {orch.source}),
                             "transform_load")
    /\ call' = [op |-> "extract", archive |-> task.archive]
    /\ UNCHANGED <<db, loader, clock>>

\* the Transform/Load stage of execute for the one source: every file
\* under the extract directory is processed, if the directory exists
FilesTransformLoad ==
    /\ orch.pc = "transform_load"
    /\ task' = [task EXCEPT !.loaded = IF task.dest.exists THEN task.dest.content ELSE {}]
    /\ orch' = RecordStage(orch, "load",
                           [ran |-> TRUE, success |-> TRUE, error |-> FALSE], "done")
    /\ call' = [op |-> "transform_load"]
    /\ UNCHANGED <<db, loader, clock, result>>

NextFiles ==
    \/ FilesDownload
    \/ FilesExtract
    \/ FilesTransformLoad

SpecFiles == InitFiles /\ [][NextFiles]_vars

(***************************************************************************)
(* DataTransformer (data/etl_pipeline/transform.py) on its own.  A string  *)
(* is a sequence over the letter "a" and the blank; a row of a file is     *)
(* given by the number of validation errors transform_row finds in it.     *)
(***************************************************************************)
Strings == SeqsUpTo({"a", " "}, MaxStrLen)

\* str.strip()
RECURSIVE Strip(_)
Strip(v) ==
    IF v = <<>> THEN v
    ELSE IF Head(v) = " " THEN Strip(Tail(v))
    ELSE IF v[Len(v)] = " " THEN Strip(SubSeq(v, 1, Len(v) - 1))
    ELSE v

\* ' '.join(value.split()): the words of v from i on appended to out, one
\* blank between two words
RECURSIVE NormalizeWhitespace(_, _, _)
NormalizeWhitespace(v, i, out) ==
    IF i > Len(v) THEN out
    ELSE IF v[i] = " " THEN NormalizeWhitespace(v, i + 1, out)
    ELSE IF i > 1 /\ v[i - 1] = " " /\ out # <<>>
    THEN NormalizeWhitespace(v, i + 1, out \o <<" ", v[i]>>)
    ELSE NormalizeWhitespace(v, i + 1, Append(out, v[i]))

\* _coerce_value(value, field_schema) for a field of type 'str': isNone
\* stands for the default None that an empty value gives
CoerceValue(value, maxLength, cfg) ==
    IF value = <<>> THEN [isNone |-> TRUE, value |-> <<>>]
    ELSE LET v1 == IF cfg.stripFields THEN Strip(value) ELSE value
             v2 == IF cfg.normalizeWhitespace THEN NormalizeWhitespace(v1, 1, <<>>) ELSE v1
         IN  [isNone |-> FALSE,
              value |-> IF maxLength # 0 /\ maxLength < Len(v2)
                        THEN SubSeq(v2, 1, maxLength) ELSE v2]

\* "result.errors.extend(errors[:10])"
StoredPerRow == 10

\* transform_file consumed to its end: the TransformResult after rows[i..]
RECURSIVE TransformFile(_, _, _, _, _)
TransformFile(rows, i, r, cfg, limit) ==
    IF i > Len(rows) THEN r
    ELSE LET errs == rows[i]
             r1 == [r EXCEPT !.processed = @ + 1]
             r2 == [r1 EXCEPT !.invalid = @ + 1,
                              !.errors = @ + (IF errs < StoredPerRow THEN errs
                                              ELSE StoredPerRow)]
         IN  IF errs > 0 /\ ~cfg.skipInvalidRecords
             THEN [r2 EXCEPT !.success = FALSE]
             ELSE IF errs > 0 /\ r2.errors >= cfg.maxErrorsBeforeAbort
             THEN [r2 EXCEPT !.success = FALSE]
             ELSE LET r3 == IF errs > 0 THEN r2 ELSE [r1 EXCEPT !.valid = @ + 1]
                  IN  IF limit # 0 /\ r3.processed >= limit THEN r3
                      ELSE TransformFile(rows, i + 1, r3, cfg, limit)

\* iter_records consumed to its end: the rows read, the invalid ones among
\* them and the records yielded, after rows[i..]
RECURSIVE IterRecordsRead(_, _, _, _, _)
IterRecordsRead(rows, i, r, skipInvalid, limit) ==
    IF i > Len(rows) THEN r
    ELSE LET r1 == [r EXCEPT !.processed = @ + 1,
                             !.invalid = @ + (IF rows[i] > 0 THEN 1 ELSE 0)]
         IN  IF rows[i] > 0 /\ skipInvalid
             THEN IterRecordsRead(rows, i + 1, r1, skipInvalid, limit)
             ELSE LET r2 == [r1 EXCEPT !.valid = @ + 1]
                  IN  IF limit # 0 /\ r2.valid >= limit THEN r2
                      ELSE IterRecordsRead(rows, i + 1, r2, skipInvalid, limit)

TransformResult0 ==
    [success |-> TRUE, processed |-> 0, valid |-> 0, invalid |-> 0, errors |-> 0]

TransformConfigs ==
    [skipInvalidRecords : BOOLEAN, maxErrorsBeforeAbort : 1..MaxAbort,
     normalizeWhitespace : BOOLEAN, stripFields : BOOLEAN]

InitTransform ==
    /\ db = EmptyDb
    /\ loader = [batchSize |-> DefaultBatchSize, validAccounts |-> <<>>,
                 accountToProperty |-> <<>>, fixtures |-> EmptyCache]
    /\ clock = 1
    /\ orch = [pc |-> "unused"]
    /\ task \in [pc : {"unused"}, cfg : TransformConfigs]
    /\ call = [op |-> "none"]
    /\ result = TransformResult0

CallCoerceValue ==
    /\ \E value \in Strings, maxLength \in 0..MaxMaxLength :
          /\ call' = [op |-> "coerce_value", value |-> value, maxLength |-> maxLength]
          /\ result' = CoerceValue(value, maxLength, task.cfg)
    /\ UNCHANGED <<db, loader, clock, orch, task>>

CallTransformFile ==
    /\ \E rows \in SeqsUpTo(0..MaxRowErrors, MaxTransformRows), limit \in 0..1 :
          /\ call' = [op |-> "transform_file", rows |-> rows]
          /\ result' = TransformFile(rows, 1, TransformResult0, task.cfg, limit)
    /\ UNCHANGED <<db, loader, clock, orch, task>>

CallIterRecords ==
    /\ \E rows \in SeqsUpTo(0..MaxRowErrors, MaxTransformRows), limit \in 0..1 :
          /\ call' = [op |-> "iter_records", rows |-> rows]
          /\ result' = IterRecordsRead(rows, 1, TransformResult0, TRUE, limit)
    /\ UNCHANGED <<db, loader, clock, orch, task>>

NextTransform ==
    \/ CallCoerceValue
    \/ CallTransformFile
    \/ CallIterRecords

SpecTransform == InitTransform /\ [][NextTransform]_vars

\* no row that was in a child table when the import began carries the
\* import's batch id
FreshBatch ==
    \A kind \in {"building", "feature"} :
        \A i \in 1..Len(ChildTable(task.before, kind)) :
            ChildTable(task.before, kind)[i].batch # task.batch

\* C10: when an import has completed, every row that was in a child table
\* before it (a row of an earlier batch) is still there, inactive, and the
\* active rows of the child tables are exactly the rows of the import's
\* batch.
C10_HistoryPreserved ==
    (task.pc = "done" /\ FreshBatch) =>
        \A kind \in {"building", "feature"} :
            /\ \A i \in 1..Len(ChildTable(task.before, kind)) :
                  LET old == ChildTable(task.before, kind)[i]
                  IN  old.batch # task.batch =>
                         \E j \in 1..Len(ChildTable(db, kind)) :
                            ChildTable(db, kind)[j] = [old EXCEPT !.active = FALSE]
            /\ \A j \in 1..Len(ChildTable(db, kind)) :
                  ChildTable(db, kind)[j].active <=> ChildTable(db, kind)[j].batch = task.batch

(***************************************************************************)
(* Properties of the orchestrator.                                          *)
(***************************************************************************)
LaterStages(n) ==
    CASE n = "download" -> {"extract", "load"}
      [] n = "extract" -> {"load"}
      [] n = "load" -> {}

StageEnabled(o, m) ==
    CASE m = "download" -> ~o.skipDownload
      [] m = "extract" -> ~o.skipExtract
      [] m = "load" -> ~(o.skipTransform /\ o.skipLoad)

\* the stage that has just run had a required source fail
RequiredFailedIn(n) ==
    /\ call.op = n
    /\ \E s \in call.failed : SourceRequired(s)

\* some source failed in Download or Extract, and none of them was required
OnlyOptionalFailed ==
    /\ \E n \in {"download", "extract"} : orch.stages[n].ran /\ orch.stages[n].error
    /\ \A n \in {"download", "extract"} : orch.stages[n].ran => orch.stages[n].success

\* execute reached the end of its try block
RanToEnd == orch.pc = "done" /\ (orch.stages["load"].ran \/ (orch.skipTransform /\ orch.skipLoad))

\* C1: a run in which an optional source failed in Download or Extract and
\* no required source failed ends with status PARTIAL.
C1_OptionalFailureGivesPartial ==
    (RanToEnd /\ OnlyOptionalFailed) => orch.status = "partial"

\* C2: with continue_on_error false, once a required source has failed in
\* Download or Extract the run is over with status FAILED, and no later
\* stage has run or been started (the store is untouched).
C2_RequiredFailureAborts ==
    \A n \in {"download", "extract"} :
        (~orch.continueOnError /\ RequiredFailedIn(n)) =>
            /\ orch.status = "failed"
            /\ orch.pc = "done"
            /\ \A m \in LaterStages(n) : ~orch.stages[m].ran /\ m \notin Range(orch.started)
            /\ db = EmptyDb

C2_Witness ==
    /\ ~orch.continueOnError
    /\ RequiredFailedIn("extract")
    /\ orch.stages["download"].ran
    /\ orch.status = "failed"

\* C3: with continue_on_error true, a stage in which a required source
\* failed is recorded with success false and the run goes on to the next
\* stage; when the run is over every later stage that was not skipped has
\* been started.
C3_RequiredFailureRecordedAndContinues ==
    \A n \in {"download", "extract"} :
        /\ (orch.continueOnError /\ RequiredFailedIn(n)) =>
              /\ orch.stages[n].ran /\ ~orch.stages[n].success
              /\ orch.status = "running"
              /\ orch.pc = (IF n = "download" THEN "extract" ELSE "transform_load")
        /\ (orch.continueOnError /\ orch.stages[n].ran /\ ~orch.stages[n].success
                /\ orch.pc = "done") =>
              \A m \in LaterStages(n) : StageEnabled(orch, m) => m \in Range(orch.started)

C3_Witness ==
    /\ orch.continueOnError
    /\ orch.pc = "done"
    /\ orch.stages["download"].ran /\ ~orch.stages["download"].success
    /\ orch.stages["extract"].ran
    /\ orch.stages["load"].ran
    /\ orch.status = "partial"

\* C4: a run in which the load of a table failed during Transform+Load
\* (the loader returned an error) does not end with status COMPLETED.
C4_LoadFailureNotCompleted ==
    (orch.pc = "done" /\ orch.loadErrors > 0) => orch.status \in {"partial", "failed"}

(***************************************************************************)
(* Properties of LoadManager.                                               *)
(***************************************************************************)
Min(a, b) == IF a <= b THEN a ELSE b

AccountsOf(rows) == [i \in 1..Len(rows) |-> rows[i].acct]

\* the k-th batch of a file read in batches of size
BatchOf(records, size, k) ==
    SubSeq(records, (k - 1) * size + 1, Min(k * size, Len(records)))

\* C5: when the write of batch k of a bulk_create fails, the rows of
\* batches 1..k-1 are in the table afterwards, and the failed counter holds
\* the records of batch k only.
C5_EarlierBatchesStayCommitted ==
    [][(call'.op = "bulk_create" /\ ~result'.success) =>
          LET k == call'.failAt
              size == call'.size
          IN  /\ AccountsOf(db'.props) =
                    AccountsOf(db.props) \o SubSeq(call'.records, 1, (k - 1) * size)
              /\ result'.failed = Len(BatchOf(call'.records, size, k))]_vars

\* the child records of a file whose account is that of some PropertyRecord
WithParent(records, props) == SelectSeq(records, LAMBDA r : r.acct \in PropAccounts(props))

\* C8: a load of child records inserts a row for none of the records whose
\* parent is absent and leaves the failed counter unchanged.
C8_MissingParentIsNotFailed ==
    [][call'.op = "load_with_fk" =>
          /\ Len(db'.feats) = Len(db.feats) + Len(WithParent(call'.records, db.props))
          /\ result'.failed = 0]_vars

(***************************************************************************)
(* Properties of ModelLoader.                                               *)
(***************************************************************************)
\* C6: no two PropertyRecord rows share an account number, no two
\* BuildingDetail rows share account and building number, and no two
\* ExtraFeature rows share account, feature code and feature number.
C6_NaturalKeysUnique ==
    /\ \A i, j \in 1..Len(db.props) : db.props[i].acct = db.props[j].acct => i = j
    /\ \A i, j \in 1..Len(db.builds) :
          (db.builds[i].acct = db.builds[j].acct /\ db.builds[i].num = db.builds[j].num)
             => i = j
    /\ \A i, j \in 1..Len(db.feats) :
          (/\ db.feats[i].acct = db.feats[j].acct
           /\ db.feats[i].code = db.feats[j].code
           /\ db.feats[i].num = db.feats[j].num) => i = j

\* C7: a load of the file that the load before it loaded, this time with
\* truncate false, reports no loaded record and leaves the row count of the
\* table as it was.
C7_SecondLoadAddsNothing ==
    [][(/\ call.op = "load_property_records" /\ ~result.error
        /\ call'.op = "load_property_records" /\ ~call'.truncate
        /\ call'.failAt = 0
        /\ call'.records = call.records) =>
          /\ result'.loaded = 0
          /\ Len(db'.props) = Len(db.props)]_vars

\* C9: every BuildingDetail and ExtraFeature row references a PropertyRecord
\* row that exists and carries the child's account number.
C9_ChildRowsReferenceParent ==
    \A kind \in {"building", "feature"} :
        \A i \in 1..Len(ChildTable(db, kind)) :
            \E j \in 1..Len(db.props) :
                /\ db.props[j].id = ChildTable(db, kind)[i].pid
                /\ db.props[j].acct = ChildTable(db, kind)[i].acct

\* child rows are in the table after a later load of the primary table
C9_Witness ==
    /\ db.feats # <<>>
    /\ call.op = "load_property_records"
    /\ Len(db.props) = MaxRows

\* the value the specification gives a room column: the lookup's where it
\* is nonzero, the record's own otherwise
LookupOr(v, column) == IF v > 0 THEN v ELSE column

\* C11: after a building file has been loaded, every record of it whose
\* property exists is stored with bedrooms, bathrooms (full + 0.5 * half,
\* counted here in half baths) and half baths taken from the fixtures
\* lookup where that is nonzero and from the record's columns otherwise.
C11_RoomsFromFixturesOrColumns ==
    (/\ call.op = "file" /\ call.name = "building_res"
     /\ call.failAt = 0 /\ ~orch.skipLoad) =>
        \A i \in 1..Len(call.records) :
            LET rec == call.records[i]
                fx == GetFixtures(loader.fixtures, rec.acct, rec.num)
                full == IF rec.fullBaths = NoValue THEN 0 ELSE rec.fullBaths
                half == IF rec.halfBaths = NoValue THEN 0 ELSE rec.halfBaths
                own == IF 2 * full + half > 0 THEN 2 * full + half ELSE NoValue
            IN  rec.acct \in PropAccounts(db.props) =>
                  \E j \in 1..Len(db.builds) :
                     /\ db.builds[j].acct = rec.acct
                     /\ db.builds[j].num = rec.num
                     /\ db.builds[j].bedrooms = LookupOr(fx.bedrooms, rec.bedrooms)
                     /\ db.builds[j].bathrooms =
                           LookupOr(2 * fx.fullBaths + fx.halfBaths, own)
                     /\ db.builds[j].halfBaths = LookupOr(fx.halfBaths, rec.halfBaths)

C13_MissingFixturesGiveEmptyLookup ==
    (call.op = "transform_load" /\ call.fixtures \in {"missing", "unreadable"}) =>
        /\ loader.fixtures = EmptyCache
        /\ \A a \in Accts, n \in Nums : GetFixtures(loader.fixtures, a, n) = NoFixtures

\* the place of a stage in the order the specification gives
StageRank(n) ==
    CASE n = "download" -> 1 [] n = "extract" -> 2 [] n = "load" -> 4 [] n = "cleanup" -> 5

\* C14: the stages of a run start in the order Download, Extract, Fixtures
\* preload, Transform+Load, Cleanup, each after the one before it has
\* finished, and a run that reaches the end of its stages has executed
\* Cleanup last.
C14_StagesInOrderCleanupLast ==
    /\ \A i, j \in 1..Len(orch.started) :
          i < j => StageRank(orch.started[i]) < StageRank(orch.started[j])
    /\ orch.pc \in {"source", "file"} => orch.preloaded
    /\ (orch.pc = "done" /\ orch.status \in {"completed", "partial"}) =>
          /\ orch.started # <<>>
          /\ orch.started[Len(orch.started)] = "cleanup"

TerminalStatus == {"completed", "partial", "failed"}

\* C15: a call of execute sets the status to RUNNING at its start and keeps
\* it there while its stages run; when it has returned the status is one
\* of COMPLETED, PARTIAL, FAILED and the completion time is set, whatever
\* a stage returned or raised; and the status only ever becomes terminal
\* from RUNNING.
C15_ExecuteEndsTerminal ==
    /\ [](call.op = "execute" => orch.status = "running")
    /\ [](orch.pc \notin {"idle", "done"} => orch.status = "running" /\ ~orch.completed)
    /\ [](orch.pc = "done" => orch.status \in TerminalStatus /\ orch.completed)
    /\ [][(orch'.status \in TerminalStatus /\ orch'.status # orch.status) =>
            orch.status = "running"]_vars

\* a call has returned after an exception inside the Transform/Load stage
C15_Witness ==
    /\ orch.pc = "done" /\ orch.status = "failed" /\ orch.completed
    /\ "load" \in Range(orch.started)
    /\ ~orch.stages["load"].ran

LastOutcome == task.outcomes[Len(task.outcomes)]

\* C17: a download makes at most max_retries + 1 attempts; none follows an
\* attempt that succeeded, and the call then returns success with the
\* number of attempts made; a backoff delay has been slept after every
\* attempt that another one follows and none after the last; and when every
\* attempt failed with a retryable error the call returns a failed result
\* that reports max_retries + 1 attempts.
C17_AttemptsAndBackoff ==
    LET n == Len(task.outcomes) IN
    /\ task.attempts = n
    /\ n <= task.cfg.maxRetries + 1
    /\ \A i \in 1..(n - 1) : task.outcomes[i] # "ok"
    /\ (n > 0 /\ LastOutcome = "ok") =>
          /\ task.pc = "returned"
          /\ result.success /\ result.attempts = n
    /\ task.pc = "loop" => Len(task.slept) = n
    /\ task.pc = "returned" => Len(task.slept) = n - 1
    /\ (task.pc = "returned" /\ \A i \in 1..n : task.outcomes[i] \in {"http", "stream"}) =>
          /\ ~result.success
          /\ result.attempts = task.cfg.maxRetries + 1

\* every attempt the configuration allows has failed with a network error
C17_Witness ==
    /\ task.pc = "returned"
    /\ task.cfg.maxRetries = MaxMaxRetries
    /\ Len(task.outcomes) = MaxMaxRetries + 1
    /\ \A i \in 1..Len(task.outcomes) : task.outcomes[i] \in {"http", "stream"}
    /\ Len(task.slept) = MaxMaxRetries
    /\ ~result.success

\* C18: an attempt that downloaded content not matching the configured
\* checksum ends the download: the call has returned a failure, no attempt
\* and no backoff sleep follows, and the downloaded file is not on disk;
\* when it was the first attempt the result reports exactly one attempt
\* and nothing was slept.
C18_ChecksumMismatchNotRetried ==
    \A i \in 1..Len(task.outcomes) :
        task.outcomes[i] = "mismatch" =>
            /\ i = Len(task.outcomes)
            /\ task.pc = "returned"
            /\ ~result.success /\ result.error = "mismatch"
            /\ result.attempts = i
            /\ Len(task.slept) = i - 1
            /\ ~task.onDisk

\* the first attempt found a wrong checksum although retries were allowed
C18_Witness ==
    /\ task.outcomes = <<"mismatch">>
    /\ task.cfg.maxRetries > 0
    /\ task.pc = "returned"
    /\ result.attempts = 1 /\ task.slept = <<>>
    /\ ~task.onDisk

\* C19: an attempt that failed on transient I/O, on the network or on the
\* disk, after fewer than max_retries retries is followed by a backoff
\* sleep and another attempt.
C19_TransientFailuresRetried ==
    LET n == Len(task.outcomes) IN
    (/\ n > 0
     /\ LastOutcome \in {"http", "stream", "disk"}
     /\ n - 1 < task.cfg.maxRetries) =>
        /\ task.pc = "loop"
        /\ Len(task.slept) = n

\* C20: the delay computed for attempts 0..N before jitter does not
\* decrease with the attempt number and is at most max_delay; a delay that
\* was slept is the computed one times a factor in [0.5, 1.0], so at most
\* max_delay as well (slept delays are in tenths of a second).
C20_DelayBounded ==
    /\ \A a \in 0..MaxMaxRetries :
          /\ CappedDelay(task.cfg, a) <= CappedDelay(task.cfg, a + 1)
          /\ CappedDelay(task.cfg, a) <= task.cfg.maxDelay
    /\ \A i \in 1..Len(task.slept) :
          /\ 5 * CappedDelay(task.cfg, i - 1) <= task.slept[i]
          /\ task.slept[i] <= 10 * CappedDelay(task.cfg, i - 1)
          /\ task.slept[i] <= 10 * task.cfg.maxDelay

\* C21: under every interleaving of the workers no exception leaves a
\* batch download, whatever fails inside a download (resolving the URL
\* included), and the list it returns holds exactly one result for each
\* source it was given.
C21_OneResultPerSource ==
    /\ task.pc # "raised"
    /\ task.pc = "returned" =>
          /\ Len(result) = Len(task.sources)
          /\ \A i \in 1..Len(task.sources) :
                Cardinality({k \in 1..Len(result) : result[k].src = i}) = 1

\* C22: when the extraction of a source's archive has ended in a failed
\* result, the source's extract directory does not exist.
C22_FailedExtractLeavesNoDirectory ==
    (call.op = "extract" /\ ~result.success) => ~task.dest.exists

\* C23: after a download that failed on a checksum mismatch, and after an
\* extraction that found the archive corrupt, the source has failed and its
\* archive is no longer in the download directory.
C23_IntegrityFailureDiscardsArchive ==
    /\ (call.op = "download" /\ result.error = "mismatch") =>
          /\ ~orch.stages["download"].success \/ ~SourceRequired(orch.source)
          /\ task.archive = "none"
    /\ (call.op = "extract" /\ call.archive \in {"corrupt", "partial"}) =>
          /\ ~result.success
          /\ task.archive = "none"

\* C30: when the download of the source has failed in this run, nothing
\* that Transform/Load reads in this run comes from an archive left by an
\* earlier run or by a partly written download.
C30_NoStaleDataAfterFailedDownload ==
    (orch.stages["download"].ran /\ orch.stages["download"].error) =>
        task.loaded = {}

\* C24: a transform of a file, through transform_file or through the
\* record iterator that feeds Load, reads no row after the one with which
\* the invalid records exceed max_errors_before_abort, and the errors it
\* stores stay bounded.
C24_AbortAfterTooManyInvalid ==
    call.op \in {"transform_file", "iter_records"} =>
        /\ result.invalid <= task.cfg.maxErrorsBeforeAbort + 1
        /\ result.errors <= StoredPerRow * (task.cfg.maxErrorsBeforeAbort + 1)

\* C25: with stripping and whitespace normalization on, the value of a
\* str field with max_length n > 0 has at most n characters and neither
\* begins nor ends with whitespace.
C25_StrippedAndTruncated ==
    (/\ call.op = "coerce_value" /\ call.maxLength > 0 /\ ~result.isNone
     /\ task.cfg.stripFields /\ task.cfg.normalizeWhitespace) =>
        /\ Len(result.value) <= call.maxLength
        /\ result.value # <<>> =>
              /\ result.value[1] # " "
              /\ result.value[Len(result.value)] # " "

C27_SourcesInPriorityOrder ==
    orch.pc \in {"source", "file", "done"} =>
        \A i, j \in 1..Len(orch.sources) :
            (i < j /\ j <= orch.idx) =>
                SourcePriority(orch.sources[i]) <= SourcePriority(orch.sources[j])

\* the table a ModelLoader call loads into
TargetTable(d, op) ==
    IF op = "load_property_records" THEN d.props
    ELSE IF op = "load_building_details" THEN d.builds
    ELSE d.feats

LoaderCalls ==
    {"load_property_records", "load_building_details", "load_extra_features"}

\* C28: a load called with truncate=true that returns with an error leaves
\* its target table holding the rows it held before the load began.
C28_FailedReloadKeepsTable ==
    [][(/\ call'.op \in LoaderCalls
        /\ call'.truncate
        /\ result'.error)
          => TargetTable(db', call'.op) = TargetTable(db, call'.op)]_vars

\* C29: when a load returns, its loaded counter is the number of rows the
\* load added to its target table; rows of a rolled-back transaction are
\* not counted.
C29_LoadedCountsRowsAdded ==
    [][call'.op \in LoaderCalls
          => result'.loaded =
               Len(TargetTable(db', call'.op))
                 - (IF call'.truncate THEN 0 ELSE Len(TargetTable(db, call'.op)))]_vars

=============================================================================
